---- MODULE Spec2Model ----
(***************************************************************************)
(* Model of streamlit_app.py (Triage AI Navigator): the classifier         *)
(* patient_monitoring_pipeline_integrated, the session state and the       *)
(* button handlers of the Home, Patient Triage and Clinician Portal pages. *)
(***************************************************************************)
EXTENDS Integers, Sequences, FiniteSets, TLC

VARIABLES current_page, step, patient_info, rf, vitals_history, esi, photo,
          main_symptom, analysis, trail, encHistory, encPhoto, previous,
          appended

vars == <<current_page, step, patient_info, rf, vitals_history, esi, photo,
          main_symptom, analysis, trail, encHistory, encPhoto, previous,
          appended>>

(* ---------------- bounds ---------------- *)

\* VitalsCapture confirmations allowed on top of an empty or simulated history
MaxCaptures == 2
\* longest series drawn as classifier input
MaxLen == 3
\* longest series of the other two metrics when one metric gets a reading
MaxOther == 1

(* ---------------- SECTION 1: core clinical logic ---------------- *)

SPECIALIST_MAP ==
  [s \in {"Wound/Skin", "Chest Pain", "Breathing Issue", "Fever/Infection",
          "Nerve/Numbness"} |->
     CASE s = "Wound/Skin" -> "Dermatologist or General Surgeon"
       [] s = "Chest Pain" -> "Cardiologist"
       [] s = "Breathing Issue" -> "Pulmonologist"
       [] s = "Fever/Infection" -> "General Physician"
       [] s = "Nerve/Numbness" -> "Neurologist"]

METRICS == <<"heart_rate", "spo2", "pain_score">>

RED_FLAG_THRESHOLDS ==
  [heart_rate |-> <<40, 130>>, spo2 |-> <<0, 90>>, pain_score |-> <<8, 10>>]

\* metric.replace('_', ' ').title()
Title(metric) ==
  CASE metric = "heart_rate" -> "Heart Rate"
    [] metric = "spo2" -> "Spo2"
    [] metric = "pain_score" -> "Pain Score"

RECURSIVE SumSeq(_, _)
\* sum over i of weight(i) * values[i+1], i = 0..Len-1, with x = 0..n-1;
\* k = 0 gives the plain sum of y, k = 1 the sum of x*y
SumSeq(values, k) ==
  IF values = <<>> THEN 0
  ELSE LET n == Len(values)
           w == IF k = 0 THEN 1 ELSE n - 1
       IN  w * values[n] + SumSeq(SubSeq(values, 1, n - 1), k)

\* round(q, 2) of the rational q = num/den (den > 0), in hundredths,
\* ties to the even hundredth
Round2(num, den) ==
  LET f == (100 * num) \div den
      r == (100 * num) % den
  IN  IF 2 * r < den THEN f
      ELSE IF 2 * r > den THEN f + 1
      ELSE IF f % 2 = 0 THEN f ELSE f + 1

\* calculate_slope followed by round(slope, 2): the least-squares slope of
\* (index, value), as an integer number of hundredths
calculate_slope(values) ==
  IF Len(values) < 2 THEN 0
  ELSE LET n == Len(values)
           Sx == (n * (n - 1)) \div 2
           Sxx == ((n - 1) * n * (2 * n - 1)) \div 6
           Sy == SumSeq(values, 0)
           Sxy == SumSeq(values, 1)
       IN  Round2(n * Sxy - Sx * Sy, n * Sxx - Sx * Sx)

\* a skip test taken from calculate_slope's guard
SkipMetricShort(data) == Len(data) < 2

\* `if not data: continue`
SkipMetric(data) == data = <<>>

\* the rule without its heart_rate branch
IsWorseningNoHeartRate(metric, delta) ==
  IF metric = "spo2" /\ delta < -2 THEN TRUE
  ELSE IF metric = "pain_score" /\ delta > 2 THEN TRUE
  ELSE FALSE

\* the rule with the thresholds themselves counted as worsening
IsWorseningInclusive(metric, delta) ==
  IF metric = "spo2" /\ delta <= -2 THEN TRUE
  ELSE IF metric = "pain_score" /\ delta >= 2 THEN TRUE
  ELSE IF metric = "heart_rate" /\ delta >= 5 THEN TRUE
  ELSE FALSE

\* lines 66-73
IsWorsening(metric, delta) ==
  IF metric = "spo2" /\ delta < -2 THEN TRUE
  ELSE IF metric = "pain_score" /\ delta > 2 THEN TRUE
  ELSE IF metric = "heart_rate" /\ delta > 5 THEN TRUE
  ELSE FALSE

\* lines 75-78
RedFlag(metric, current) ==
  \/ current < RED_FLAG_THRESHOLDS[metric][1]
  \/ current > RED_FLAG_THRESHOLDS[metric][2]

WorseningReason(metric) ==
  CASE metric = "heart_rate" -> "Heart Rate is worsening over time."
    [] metric = "spo2" -> "Spo2 is worsening over time."
    [] metric = "pain_score" -> "Pain Score is worsening over time."

CriticalReason(metric) ==
  CASE metric = "heart_rate" -> "CRITICAL: Heart Rate crossed safety limits."
    [] metric = "spo2" -> "CRITICAL: Spo2 crossed safety limits."
    [] metric = "pain_score" -> "CRITICAL: Pain Score crossed safety limits."

\* escalation on hard limits alone
OverallStatusRedOnly(red_flag_count, worsening_count) ==
  IF red_flag_count >= 1 THEN "RED_FLAG" ELSE "MONITOR"

\* line 97
OverallStatus(red_flag_count, worsening_count) ==
  IF red_flag_count >= 1 \/ worsening_count >= 1 THEN "RED_FLAG" ELSE "MONITOR"

\* the value of a call that has not been made
NoAnalysis ==
  [raised |-> "not called", metrics |-> <<>>, overall_status |-> "",
   worsening_count |-> 0, red_flag_count |-> 0, reasons |-> <<>>]

\* a call that ended in an exception: there is no return value
Raised(exc) ==
  [raised |-> exc, metrics |-> <<>>, overall_status |-> "",
   worsening_count |-> 0, red_flag_count |-> 0, reasons |-> <<>>]

\* a loop body that reports the critical reason before the worsening one
LoopBodyCriticalFirst(metric, data, acc) ==
  IF SkipMetric(data) THEN acc
  ELSE LET current == data[Len(data)]
           baseline == data[1]
           delta == current - baseline
           slope == calculate_slope(data)
           is_worsening == IsWorsening(metric, delta)
           red_flag == RedFlag(metric, current)
           r1 == IF red_flag
                 THEN Append(acc.reasons, CriticalReason(metric))
                 ELSE acc.reasons
           r2 == IF is_worsening THEN Append(r1, WorseningReason(metric)) ELSE r1
       IN  [metrics |-> Append(acc.metrics,
                         [Metric |-> Title(metric),
                          Trend |-> IF is_worsening THEN "Worsening" ELSE "Stable",
                          Critical_Alert |-> IF red_flag THEN "YES" ELSE "No",
                          Slope |-> slope]),
            worsening_count |-> acc.worsening_count + (IF is_worsening THEN 1 ELSE 0),
            red_flag_count |-> acc.red_flag_count + (IF red_flag THEN 1 ELSE 0),
            reasons |-> r2]

\* one iteration of `for metric in METRICS` on the accumulators acc
LoopBody(metric, data, acc) ==
  IF SkipMetric(data) THEN acc
  ELSE LET current == data[Len(data)]
           baseline == data[1]
           delta == current - baseline
           slope == calculate_slope(data)
           is_worsening == IsWorsening(metric, delta)
           red_flag == RedFlag(metric, current)
           r1 == IF is_worsening
                 THEN Append(acc.reasons, WorseningReason(metric))
                 ELSE acc.reasons
           r2 == IF red_flag THEN Append(r1, CriticalReason(metric)) ELSE r1
       IN  [metrics |-> Append(acc.metrics,
                         [Metric |-> Title(metric),
                          Trend |-> IF is_worsening THEN "Worsening" ELSE "Stable",
                          Critical_Alert |-> IF red_flag THEN "YES" ELSE "No",
                          Slope |-> slope]),
            worsening_count |-> acc.worsening_count + (IF is_worsening THEN 1 ELSE 0),
            red_flag_count |-> acc.red_flag_count + (IF red_flag THEN 1 ELSE 0),
            reasons |-> r2]

RECURSIVE Loop(_, _, _, _)
\* the for loop from index i on; vitals_history[metric] raises KeyError when
\* the mapping has no such key
Loop(metrics, i, history, acc) ==
  IF i > Len(metrics)
  THEN [raised |-> "none", metrics |-> acc.metrics,
        overall_status |-> OverallStatus(acc.red_flag_count, acc.worsening_count),
        worsening_count |-> acc.worsening_count,
        red_flag_count |-> acc.red_flag_count,
        reasons |-> acc.reasons]
  ELSE IF metrics[i] \notin DOMAIN history THEN Raised("KeyError")
  ELSE Loop(metrics, i + 1, history, LoopBody(metrics[i], history[metrics[i]], acc))

\* the classifier over a given list of monitored metrics
Pipeline(metrics, history) ==
  Loop(metrics, 1, history,
       [metrics |-> <<>>, worsening_count |-> 0, red_flag_count |-> 0,
        reasons |-> <<>>])

patient_monitoring_pipeline_integrated(history) == Pipeline(METRICS, history)

(* ---------------- SECTION 2: session state ---------------- *)

\* SPECIALIST_MAP[d['main_symptom']]: a symptom that is no key raises KeyError
SpecialistLookup(symptom) ==
  IF symptom \in DOMAIN SPECIALIST_MAP THEN SPECIALIST_MAP[symptom]
  ELSE "KeyError"

\* options of the three st.radio widgets
ANSWERS == {"No", "Yes", "Not Sure"}

\* a selectbox with one more concern than the routing table
SymptomsWithOther == DOMAIN SPECIALIST_MAP \cup {"Other"}

\* list(SPECIALIST_MAP.keys()), the options of the Primary Concern selectbox
Symptoms == DOMAIN SPECIALIST_MAP

InitialPatientInfo == [name |-> "Anonymous", age |-> "N/A"]
InitialRf == [airway |-> "No", bleed |-> "No"]
InitialVitals == [heart_rate |-> <<>>, spo2 |-> <<>>, pain_score |-> <<>>]
InitialEsi == [worsening |-> "No"]

\* the history loaded by the Hourly Checkup (Simulate) button
SimulatedVitals ==
  [heart_rate |-> <<75, 82, 95, 110, 125, 135>>,
   spo2 |-> <<98, 97, 95, 92, 89, 87>>,
   pain_score |-> <<2, 3, 5, 7, 8, 9>>]

SimulatedPatientInfo == [name |-> "Simulated Patient", age |-> "45"]

\* what the script computes when it runs again after st.rerun(): the
\* classifier is called on the Summary step and on the Clinician Portal
Render(page, stp, history) ==
  IF (page = "Patient Triage" /\ stp = 5) \/ page = "Clinician Portal"
  THEN patient_monitoring_pipeline_integrated(history)
  ELSE NoAnalysis

\* the hand-off payload of the Summary step, field by field
qr_data ==
  [NAME |-> patient_info.name,
   AGE |-> patient_info.age,
   STATUS |-> analysis.overall_status,
   SPECIALIST |-> SpecialistLookup(main_symptom),
   VITALS |-> [bpm |-> IF vitals_history.heart_rate # <<>>
                       THEN vitals_history.heart_rate[Len(vitals_history.heart_rate)]
                       ELSE "N/A",
               pct |-> IF vitals_history.spo2 # <<>>
                       THEN vitals_history.spo2[Len(vitals_history.spo2)]
                       ELSE "N/A"],
   PHOTO_REF |-> IF photo # "None" THEN "AVAILABLE" ELSE "NONE"]

Init ==
  /\ current_page = "Home"
  /\ step = 0
  /\ patient_info = InitialPatientInfo
  /\ rf = InitialRf
  /\ vitals_history = InitialVitals
  /\ esi = InitialEsi
  /\ photo = "None"
  /\ main_symptom = "Wound/Skin"
  /\ analysis = NoAnalysis
  /\ trail = <<>>
  /\ encHistory = InitialVitals
  /\ encPhoto = FALSE
  /\ previous = NoAnalysis
  /\ appended = "none"

(* ---------------- inputs the user can enter ---------------- *)

Names == {"Asha"}
Ages == {"30"}
HRInputs == {75, 135}
SpO2Inputs == {98}
PainInputs == {0}

IsPrefix(s, t) == Len(s) <= Len(t) /\ SubSeq(t, 1, Len(s)) = s

\* readings captured on top of an empty or simulated heart-rate series
NumCaptured(history) ==
  IF IsPrefix(SimulatedVitals.heart_rate, history.heart_rate)
  THEN Len(history.heart_rate) - Len(SimulatedVitals.heart_rate)
  ELSE Len(history.heart_rate)

(* ---------------- SECTION 3: pages ---------------- *)

\* Home: "Start Real Triage Assessment"
StartRealTriageAssessment ==
  /\ current_page = "Home"
  /\ step' = 0
  /\ current_page' = "Patient Triage"
  /\ trail' = <<>>
  /\ analysis' = Render(current_page', step', vitals_history)
  /\ UNCHANGED <<patient_info, rf, vitals_history, esi, photo, main_symptom,
                 encHistory,
                 encPhoto, previous, appended>>

\* Home: "Hourly Checkup (Simulate)"
HourlyCheckupSimulate ==
  /\ current_page = "Home"
  /\ patient_info' = SimulatedPatientInfo
  /\ vitals_history' = SimulatedVitals
  /\ main_symptom' = "Breathing Issue"
  /\ current_page' = "Clinician Portal"
  /\ analysis' = Render(current_page', step, vitals_history')
  /\ UNCHANGED <<step, rf, esi, photo, trail, encHistory,
                 encPhoto, previous, appended>>

\* Step 0: "Begin Assessment"; the text inputs default to the stored values
BeginAssessment ==
  /\ current_page = "Patient Triage" /\ step = 0
  /\ \E name \in Names \cup {patient_info.name}, age \in Ages \cup {patient_info.age} :
       patient_info' = [name |-> name, age |-> age]
  /\ step' = 1
  /\ trail' = Append(trail, 0)
  /\ encHistory' = InitialVitals
  /\ encPhoto' = FALSE
  /\ analysis' = Render(current_page, step', vitals_history)
  /\ UNCHANGED <<current_page, rf, vitals_history, esi, photo, main_symptom,
                 previous, appended>>

\* a Continue handler that goes straight to the context step
SafetyContinueToContext ==
  /\ current_page = "Patient Triage" /\ step = 1
  /\ \E q1 \in ANSWERS, q2 \in ANSWERS : rf' = [airway |-> q1, bleed |-> q2]
  /\ step' = 3
  /\ trail' = Append(trail, 1)
  /\ analysis' = Render(current_page, step', vitals_history)
  /\ UNCHANGED <<current_page, patient_info, vitals_history, esi, photo,
                 main_symptom, encHistory,
                 encPhoto, previous, appended>>

\* a Continue handler that sends an airway Yes straight to the summary
SafetyContinueBypass ==
  /\ current_page = "Patient Triage" /\ step = 1
  /\ \E q1 \in ANSWERS, q2 \in ANSWERS :
       /\ rf' = [airway |-> q1, bleed |-> q2]
       /\ step' = IF q1 = "Yes" THEN 5 ELSE 2
  /\ trail' = Append(trail, 1)
  /\ analysis' = Render(current_page, step', vitals_history)
  /\ UNCHANGED <<current_page, patient_info, vitals_history, esi, photo,
                 main_symptom, encHistory, encPhoto, previous, appended>>

\* Step 1: "Continue"
SafetyContinue ==
  /\ current_page = "Patient Triage" /\ step = 1
  /\ \E q1 \in ANSWERS, q2 \in ANSWERS : rf' = [airway |-> q1, bleed |-> q2]
  /\ step' = 2
  /\ trail' = Append(trail, 1)
  /\ analysis' = Render(current_page, step', vitals_history)
  /\ UNCHANGED <<current_page, patient_info, vitals_history, esi, photo,
                 main_symptom, encHistory,
                 encPhoto, previous, appended>>

\* an append that leaves the pain score out
AppendReadingNoPain(history, hr, spo2, pain) ==
  [history EXCEPT !.heart_rate = Append(@, hr),
                  !.spo2 = Append(@, spo2)]

\* a capture that overwrites the series
AppendReadingReplace(history, hr, spo2, pain) ==
  [heart_rate |-> <<hr>>, spo2 |-> <<spo2>>, pain_score |-> <<pain>>]

AppendReading(history, hr, spo2, pain) ==
  [history EXCEPT !.heart_rate = Append(@, hr),
                  !.spo2 = Append(@, spo2),
                  !.pain_score = Append(@, pain)]

\* a Next handler that records nothing
VitalsNextNoAppend ==
  /\ current_page = "Patient Triage" /\ step = 2
  /\ step' = 3
  /\ trail' = Append(trail, 2)
  /\ analysis' = Render(current_page, step', vitals_history)
  /\ UNCHANGED <<current_page, patient_info, rf, vitals_history, esi, photo,
                 main_symptom, encHistory, encPhoto, previous, appended>>

\* Step 2: "Next"
VitalsNext ==
  /\ current_page = "Patient Triage" /\ step = 2
  /\ NumCaptured(vitals_history) < MaxCaptures
  /\ \E hr \in HRInputs, spo2 \in SpO2Inputs, pain \in PainInputs :
       /\ vitals_history' = AppendReading(vitals_history, hr, spo2, pain)
       /\ encHistory' = AppendReading(encHistory, hr, spo2, pain)
  /\ step' = 3
  /\ trail' = Append(trail, 2)
  /\ analysis' = Render(current_page, step', vitals_history')
  /\ UNCHANGED <<current_page, patient_info, rf, esi, photo, main_symptom,
                 encPhoto, previous, appended>>

\* a branch that sends only wounds to the photo step
BranchStepWoundOnly(symp) == IF symp \in {"Wound/Skin"} THEN 4 ELSE 5

\* line 223
BranchStep(symp) == IF symp \in {"Wound/Skin", "Fever/Infection"} THEN 4 ELSE 5

\* Step 3: "Analyze Flow"
AnalyzeFlow ==
  /\ current_page = "Patient Triage" /\ step = 3
  /\ \E symp \in Symptoms, c1 \in ANSWERS :
       /\ main_symptom' = symp
       /\ esi' = [worsening |-> c1]
       /\ step' = BranchStep(symp)
  /\ trail' = Append(trail, 3)
  /\ analysis' = Render(current_page, step', vitals_history)
  /\ UNCHANGED <<current_page, patient_info, rf, vitals_history, photo, encHistory,
                 encPhoto, previous, appended>>

\* Step 4: a file is put in the uploader
UploadImage ==
  /\ current_page = "Patient Triage" /\ step = 4
  /\ photo' = "up_file"
  /\ encPhoto' = TRUE
  /\ analysis' = Render(current_page, step, vitals_history)
  /\ UNCHANGED <<current_page, step, patient_info, rf, vitals_history, esi,
                 main_symptom, trail, encHistory, previous, appended>>

\* Step 4: "Complete"
PhotoComplete ==
  /\ current_page = "Patient Triage" /\ step = 4
  /\ step' = 5
  /\ trail' = Append(trail, 4)
  /\ analysis' = Render(current_page, step', vitals_history)
  /\ UNCHANGED <<current_page, patient_info, rf, vitals_history, esi, photo,
                 main_symptom, encHistory,
                 encPhoto, previous, appended>>

\* Step 5: "Finish"
Finish ==
  /\ current_page = "Patient Triage" /\ step = 5
  /\ step' = 0
  /\ current_page' = "Home"
  /\ trail' = <<>>
  /\ analysis' = Render(current_page', step', vitals_history)
  /\ UNCHANGED <<patient_info, rf, vitals_history, esi, photo, main_symptom,
                 encHistory,
                 encPhoto, previous, appended>>

\* Clinician Portal: "Back to Home"
BackToHome ==
  /\ current_page = "Clinician Portal"
  /\ step' = 0
  /\ current_page' = "Home"
  /\ trail' = <<>>
  /\ analysis' = Render(current_page', step', vitals_history)
  /\ UNCHANGED <<patient_info, rf, vitals_history, esi, photo, main_symptom,
                 encHistory,
                 encPhoto, previous, appended>>

Next ==
  \/ StartRealTriageAssessment
  \/ HourlyCheckupSimulate
  \/ BeginAssessment
  \/ SafetyContinue
  \/ VitalsNext
  \/ AnalyzeFlow
  \/ UploadImage
  \/ PhotoComplete
  \/ Finish
  \/ BackToHome

Spec == Init /\ [][Next]_vars

(* ---------------- the classifier on its own ---------------- *)

HRValues == {39, 40, 125, 130, 131}
SpO2Values == {90, 91, 93}
PainValues == {5, 7, 8}

\* readings between the first and the last of a drawn series
HRMids == {150}
SpO2Mids == {80}
PainMids == {10}

\* the series of at most MaxLen readings whose first and last reading are
\* in values and whose readings in between are in mids
SeriesOver(values, mids) ==
  {<<>>} \cup {<<a>> : a \in values}
    \cup UNION {{<<a>> \o mid \o <<b>> :
                   a \in values, b \in values, mid \in [1..k -> mids]} :
                k \in 0..(MaxLen - 2)}

ValuesOf(metric) ==
  CASE metric = "heart_rate" -> HRValues
    [] metric = "spo2" -> SpO2Values
    [] metric = "pain_score" -> PainValues

MetricSet == {METRICS[i] : i \in DOMAIN METRICS}

\* the spec's stable scenario
NormalScenario ==
  [heart_rate |-> <<72, 74>>, spo2 |-> <<98, 98>>, pain_score |-> <<1, 1>>]

\* a key the mapping does not have
Absent == <<-1>>

\* the mapping with the given series, without the keys marked Absent
Mapping(hr, spo2, pain) ==
  LET all == [heart_rate |-> hr, spo2 |-> spo2, pain_score |-> pain]
  IN  [m \in {k \in MetricSet : all[k] # Absent} |-> all[m]]

\* the series a key can hold, or no key at all
InputsOf(values, mids) == SeriesOver(values, mids) \cup {Absent}

InitClassify ==
  /\ current_page = "Home"
  /\ step = 0
  /\ patient_info = InitialPatientInfo
  /\ rf = InitialRf
  /\ \/ \E hr \in InputsOf(HRValues, HRMids),
             spo2 \in InputsOf(SpO2Values, SpO2Mids),
             pain \in InputsOf(PainValues, PainMids) :
          vitals_history = Mapping(hr, spo2, pain)
     \/ vitals_history \in {NormalScenario, SimulatedVitals}
  /\ esi = InitialEsi
  /\ photo = "None"
  /\ main_symptom = "Wound/Skin"
  /\ analysis = NoAnalysis
  /\ trail = <<>>
  /\ encHistory = InitialVitals
  /\ encPhoto = FALSE
  /\ previous = NoAnalysis
  /\ appended = "none"

\* a call that takes the baseline off the front of each series
ClassifyCallConsuming ==
  /\ previous' = analysis
  /\ analysis' = patient_monitoring_pipeline_integrated(vitals_history)
  /\ appended' = "none"
  /\ vitals_history' = [m \in DOMAIN vitals_history |->
                          IF vitals_history[m] = <<>> THEN <<>>
                          ELSE Tail(vitals_history[m])]
  /\ UNCHANGED <<current_page, step, patient_info, rf, esi,
                 photo, main_symptom, trail, encHistory, encPhoto>>

\* a call patient_monitoring_pipeline_integrated(vitals_history); previous
\* keeps what the call before it returned
ClassifyCall ==
  /\ previous' = analysis
  /\ analysis' = patient_monitoring_pipeline_integrated(vitals_history)
  /\ appended' = "none"
  /\ UNCHANGED <<current_page, step, patient_info, rf, vitals_history, esi,
                 photo, main_symptom, trail, encHistory, encPhoto>>

\* one more reading for one metric, then a call on the longer history; done
\* once, on a history that has been classified
AppendAndClassify ==
  /\ analysis.raised = "none"
  /\ previous = NoAnalysis
  /\ \E m \in MetricSet :
       /\ Len(vitals_history[m]) < MaxLen
       /\ \A o \in MetricSet \ {m} : Len(vitals_history[o]) <= MaxOther
       /\ \E v \in ValuesOf(m) :
            vitals_history' = [vitals_history EXCEPT ![m] = Append(@, v)]
       /\ appended' = m
  /\ previous' = analysis
  /\ analysis' = patient_monitoring_pipeline_integrated(vitals_history')
  /\ UNCHANGED <<current_page, step, patient_info, rf, esi, photo,
                 main_symptom, trail, encHistory, encPhoto>>

NextClassify == ClassifyCall \/ AppendAndClassify

SpecClassify == InitClassify /\ [][NextClassify]_vars

(* ---------------- properties ---------------- *)

Initial(pi, r, vh, e, ph, ms) ==
  /\ pi = InitialPatientInfo
  /\ r = InitialRf
  /\ vh = InitialVitals
  /\ e = InitialEsi
  /\ ph = "None"
  /\ ms = "Wound/Skin"

\* C1: the Finish action at Summary leaves the workflow at Registration and
\* the encounter cleared: patient info, safety answers, context and photo at
\* their initial values, every vitals series empty.
FinishClearsEncounter ==
  [][(current_page = "Patient Triage" /\ step = 5 /\ current_page' = "Home")
       => /\ step' = 0
          /\ Initial(patient_info', rf', vitals_history', esi', photo',
                     main_symptom')]_vars

AtSummary == current_page = "Patient Triage" /\ step = 5

\* C2: the history classified at Summary holds only the readings appended by
\* VitalsCapture since the most recent Registration confirmation.
SummaryHistoryIsThisEncounter == AtSummary => vitals_history = encHistory

Returned == analysis.raised = "none"

Last(series) == series[Len(series)]

\* the hard safety limits as the specification states them
SafetyLimitBreached(metric, current) ==
  CASE metric = "heart_rate" -> current < 40 \/ current > 130
    [] metric = "spo2" -> current <= 90
    [] metric = "pain_score" -> current >= 8

RowsOf(metric) ==
  {i \in DOMAIN analysis.metrics : analysis.metrics[i].Metric = Title(metric)}

\* C3: every metric with a non-empty series is marked red flag exactly when
\* its latest reading breaches the hard safety limit (heart rate below 40 or
\* above 130, SpO2 at or below 90, pain at or above 8).
RedFlagIffLimitBreached ==
  Returned =>
    \A m \in DOMAIN vitals_history :
      vitals_history[m] # <<>> =>
        /\ RowsOf(m) # {}
        /\ \A i \in RowsOf(m) :
             (analysis.metrics[i].Critical_Alert = "YES")
               <=> SafetyLimitBreached(m, Last(vitals_history[m]))

\* C4: the stable scenario heart_rate=[72,74], spo2=[98,98], pain_score=[1,1]
\* is classified MONITOR with both counts 0 and no reasons.
NormalScenarioIsMonitor ==
  (Returned /\ vitals_history = NormalScenario) =>
    /\ analysis.overall_status = "MONITOR"
    /\ analysis.worsening_count = 0
    /\ analysis.red_flag_count = 0
    /\ analysis.reasons = <<>>

\* C5: the simulated history classified in the Clinician Portal is RED_FLAG
\* with three worsening metrics and three red flags.
SimulatedIsTripleRedFlag ==
  (current_page = "Clinician Portal" /\ vitals_history = SimulatedVitals) =>
    /\ analysis.overall_status = "RED_FLAG"
    /\ analysis.worsening_count = 3
    /\ analysis.red_flag_count = 3

Called == analysis.raised # "not called"

PresentMetrics(history) == SelectSeq(METRICS, LAMBDA m : m \in DOMAIN history)

\* C6: with a monitored metric missing from the mapping the call raises no
\* error and returns the classification of the metrics that are there.
AbsentMetricIsSkipped ==
  (Called /\ DOMAIN vitals_history # MetricSet) =>
    /\ analysis.raised = "none"
    /\ analysis = Pipeline(PresentMetrics(vitals_history), vitals_history)

Without(metric) == SelectSeq(METRICS, LAMBDA m : m # metric)

NonEmptyMetrics == {m \in DOMAIN vitals_history : vitals_history[m] # <<>>}

\* C7: a present but empty series gives no row, no reason and no count, every
\* non-empty series gives its row, and rows, counts and reasons are those of
\* the classifier run without the empty metric.
EmptySeriesExcluded ==
  (Called /\ DOMAIN vitals_history = MetricSet) =>
    /\ analysis.raised = "none"
    /\ Len(analysis.metrics) = Cardinality(NonEmptyMetrics)
    /\ \A m \in MetricSet :
         vitals_history[m] = <<>> =>
           /\ RowsOf(m) = {}
           /\ \A i \in DOMAIN analysis.reasons :
                analysis.reasons[i] \notin {WorseningReason(m), CriticalReason(m)}
           /\ analysis = Pipeline(Without(m), vitals_history)

\* an empty pain series next to a worsening, flagged heart rate
EmptySeriesExcludedWitness ==
  /\ Returned
  /\ DOMAIN vitals_history = MetricSet
  /\ vitals_history["pain_score"] = <<>>
  /\ vitals_history["heart_rate"] # <<>>
  /\ vitals_history["spo2"] # <<>>
  /\ Len(analysis.metrics) = 2
  /\ analysis.worsening_count = 1
  /\ analysis.red_flag_count = 1

\* C8: Summary is reached only after Registration, SafetyScreen, VitalsCapture
\* and ContextAndBranch were confirmed in that order since the workflow was
\* last at Registration (WoundPhoto may follow), and a step either advances
\* by one stage, passes over WoundPhoto alone, or is the return from Summary
\* to Registration.
WorkflowNeverSkips ==
  /\ [](AtSummary => trail \in {<<0, 1, 2, 3>>, <<0, 1, 2, 3, 4>>})
  /\ [][\/ step' = step
        \/ step' = step + 1
        \/ step = 3 /\ step' = 5
        \/ step = 5 /\ step' = 0]_vars

\* Summary reached past WoundPhoto, and Summary reached around it
WorkflowNeverSkipsWitness ==
  /\ AtSummary
  /\ trail = <<0, 1, 2, 3>>
  /\ main_symptom = "Chest Pain"
  /\ NumCaptured(vitals_history) = MaxCaptures

\* C9: confirming ContextAndBranch leads to WoundPhoto exactly when the symptom
\* selected there is Wound/Skin or Fever/Infection and to Summary otherwise,
\* whatever the rest of the encounter holds; WoundPhoto leads to Summary.
BranchOnSymptomOnly ==
  [][/\ (step = 3 /\ step' # 3) =>
          /\ step' \in {4, 5}
          /\ step' = 4 <=> main_symptom' \in {"Wound/Skin", "Fever/Infection"}
     /\ (step = 4 /\ step' # 4) => step' = 5]_vars

\* Summary reached through WoundPhoto with no image attached, after a
\* rapidly-worsening self-report
BranchOnSymptomOnlyWitness ==
  /\ AtSummary
  /\ trail = <<0, 1, 2, 3, 4>>
  /\ main_symptom = "Fever/Infection"
  /\ photo = "None"
  /\ esi.worsening = "Yes"

\* C10: overall_status is RED_FLAG exactly when red_flag_count >= 1 or
\* worsening_count >= 1, and MONITOR otherwise.
StatusAggregation ==
  Returned =>
    LET escalate == analysis.red_flag_count >= 1 \/ analysis.worsening_count >= 1
    IN  /\ analysis.overall_status \in {"RED_FLAG", "MONITOR"}
        /\ analysis.overall_status = "RED_FLAG" <=> escalate

\* one worsening metric, no red flag, all three metrics classified
StatusAggregationWitness ==
  /\ Returned
  /\ Len(analysis.metrics) = 3
  /\ analysis.worsening_count = 1
  /\ analysis.red_flag_count = 0
  /\ analysis.overall_status = "RED_FLAG"

\* the worsening thresholds as the specification states them
WorseningRule(metric, delta) ==
  CASE metric = "spo2" -> delta < -2
    [] metric = "pain_score" -> delta > 2
    [] metric = "heart_rate" -> delta > 5

DeltaBeyond(metric, series) ==
  series # <<>> /\ WorseningRule(metric, Last(series) - series[1])

Front(series) == SubSeq(series, 1, Len(series) - 1)

\* the last call followed the append of a reading that took the metric's
\* delta from within its worsening threshold to beyond it
AppendCrossedThreshold ==
  /\ appended # "none"
  /\ analysis.raised = "none"
  /\ ~DeltaBeyond(appended, Front(vitals_history[appended]))
  /\ DeltaBeyond(appended, vitals_history[appended])

\* C11 as stated: such an append strictly increases worsening_count or
\* red_flag_count and decreases neither.
AppendIsMonotone ==
  AppendCrossedThreshold =>
    /\ \/ analysis.worsening_count > previous.worsening_count
       \/ analysis.red_flag_count > previous.red_flag_count
    /\ analysis.worsening_count >= previous.worsening_count
    /\ analysis.red_flag_count >= previous.red_flag_count

\* C11 (amended): appending to one metric's series a reading that takes that
\* metric's delta beyond its worsening threshold increases worsening_count by
\* exactly one; red_flag_count changes by at most one, in either direction.
AppendRaisesWorseningCount ==
  AppendCrossedThreshold =>
    /\ analysis.worsening_count = previous.worsening_count + 1
    /\ analysis.red_flag_count - previous.red_flag_count \in {-1, 0, 1}

\* a heart rate that rises from below 40 into the range: one more worsening
\* metric, one red flag fewer
AppendRaisesWorseningCountWitness ==
  /\ AppendCrossedThreshold
  /\ appended = "heart_rate"
  /\ analysis.worsening_count = previous.worsening_count + 1
  /\ analysis.red_flag_count = previous.red_flag_count - 1

InPortal == current_page = "Clinician Portal"

\* C13: main_symptom is always one of the five primary concerns, each of
\* which has its specialist label, so the lookup at Summary and in the
\* Clinician Portal never fails.
SpecialistAlwaysResolves ==
  /\ main_symptom \in {"Wound/Skin", "Chest Pain", "Breathing Issue",
                       "Fever/Infection", "Nerve/Numbness"}
  /\ (AtSummary \/ InPortal) =>
       SpecialistLookup(main_symptom) \in
         {"Dermatologist or General Surgeon", "Cardiologist", "Pulmonologist",
          "General Physician", "Neurologist"}

\* the last entry of the routing table looked up at Summary
SpecialistAlwaysResolvesWitness ==
  /\ AtSummary
  /\ main_symptom = "Nerve/Numbness"
  /\ SpecialistLookup(main_symptom) = "Neurologist"

\* the stage that follows a stage, given the symptom held after the step
RouteAfter(stp, symp) ==
  CASE stp = 0 -> 1
    [] stp = 1 -> 2
    [] stp = 2 -> 3
    [] stp = 3 -> IF symp \in {"Wound/Skin", "Fever/Infection"} THEN 4 ELSE 5
    [] stp = 4 -> 5
    [] stp = 5 -> 0

ReadingsBeforeAnalysis ==
  (AtSummary \/ InPortal) =>
    /\ analysis.raised = "none"
    /\ \A m \in MetricSet : vitals_history[m] # <<>>

\* Summary of a first encounter: one reading per metric, three rows
ReadingsBeforeAnalysisWitness ==
  /\ AtSummary
  /\ \A m \in MetricSet : Len(vitals_history[m]) = 1
  /\ Len(analysis.metrics) = 3

\* C16: confirming VitalsCapture appends one reading to each series, keeps
\* the earlier readings as a prefix and leaves patient info, safety answers,
\* context and photo unchanged.
VitalsCaptureAppendsOne ==
  [][(step = 2 /\ step' = 3) =>
       /\ \A m \in MetricSet :
            /\ Len(vitals_history'[m]) = Len(vitals_history[m]) + 1
            /\ Front(vitals_history'[m]) = vitals_history[m]
       /\ Last(vitals_history'.heart_rate) \in 30..200
       /\ Last(vitals_history'.spo2) \in 50..100
       /\ Last(vitals_history'.pain_score) \in 0..10
       /\ UNCHANGED <<patient_info, rf, esi, main_symptom, photo>>]_vars

\* a capture of a second visit, on top of the reading of the first
VitalsCaptureAppendsOneWitness ==
  /\ current_page = "Patient Triage" /\ step = 3
  /\ \A m \in MetricSet : Len(vitals_history[m]) = 2
  /\ Len(encHistory.heart_rate) = 1

FullMapping == DOMAIN vitals_history = MetricSet

\* C17: a metric is marked Worsening exactly when last minus first reading is
\* below -2 for spo2, above 2 for pain_score, above 5 for heart_rate; the
\* readings in between play no part.
WorseningIffDeltaBeyond ==
  Returned =>
    \A m \in DOMAIN vitals_history :
      vitals_history[m] # <<>> =>
        /\ RowsOf(m) # {}
        /\ \A i \in RowsOf(m) :
             LET delta == Last(vitals_history[m]) - vitals_history[m][1]
             IN  /\ analysis.metrics[i].Trend \in {"Worsening", "Stable"}
                 /\ analysis.metrics[i].Trend = "Worsening"
                      <=> WorseningRule(m, delta)

\* deltas of exactly 5, -2 and 2 around an outlying middle reading: all Stable
WorseningIffDeltaBeyondWitness ==
  /\ Returned
  /\ FullMapping
  /\ vitals_history["heart_rate"] = <<125, 150, 130>>
  /\ vitals_history["spo2"] = <<93, 80, 91>>
  /\ vitals_history["pain_score"] = <<5, 10, 7>>
  /\ analysis.worsening_count = 0
  /\ \A i \in DOMAIN analysis.metrics : analysis.metrics[i].Trend = "Stable"

MetricOfTitle(title) == CHOOSE m \in MetricSet : Title(m) = title

RECURSIVE ReasonsOfRows(_)
\* the reasons the rows call for: per row, in row order, the worsening
\* reason and then the critical reason
ReasonsOfRows(rows) ==
  IF rows = <<>> THEN <<>>
  ELSE LET m == MetricOfTitle(Head(rows).Metric)
       IN  (IF Head(rows).Trend = "Worsening" THEN <<WorseningReason(m)>> ELSE <<>>)
             \o (IF Head(rows).Critical_Alert = "YES" THEN <<CriticalReason(m)>> ELSE <<>>)
             \o ReasonsOfRows(Tail(rows))

PositionOf(metric) == CHOOSE i \in DOMAIN METRICS : METRICS[i] = metric

\* C18: reasons holds one reason per worsening metric and one per red-flag
\* metric, metric by metric in the order heart_rate, spo2, pain_score, the
\* worsening reason first; its length is worsening_count + red_flag_count
\* and it is empty exactly when the status is MONITOR.
ReasonsMatchCounts ==
  Returned =>
    /\ analysis.reasons = ReasonsOfRows(analysis.metrics)
    /\ \A i, j \in DOMAIN analysis.metrics :
         i < j => PositionOf(MetricOfTitle(analysis.metrics[i].Metric))
                    < PositionOf(MetricOfTitle(analysis.metrics[j].Metric))
    /\ Len(analysis.reasons) = analysis.worsening_count + analysis.red_flag_count
    /\ analysis.reasons = <<>> <=> analysis.overall_status = "MONITOR"

\* heart rate worsening and flagged, spo2 flagged, pain worsening
ReasonsMatchCountsWitness ==
  /\ Returned
  /\ analysis.reasons = <<"Heart Rate is worsening over time.",
                          "CRITICAL: Heart Rate crossed safety limits.",
                          "CRITICAL: Spo2 crossed safety limits.",
                          "Pain Score is worsening over time.">>
  /\ analysis.worsening_count = 2
  /\ analysis.red_flag_count = 2

\* C19: the three series always have the same length.
SeriesSameLength ==
  /\ Len(vitals_history.heart_rate) = Len(vitals_history.spo2)
  /\ Len(vitals_history.spo2) = Len(vitals_history.pain_score)

\* a reading captured on top of the simulated history
SeriesSameLengthWitness ==
  /\ current_page = "Patient Triage" /\ step = 3
  /\ IsPrefix(SimulatedVitals.pain_score, vitals_history.pain_score)
  /\ Len(vitals_history.heart_rate) = Len(SimulatedVitals.heart_rate) + 1
  /\ SeriesSameLength

\* C20: the payload built at Summary reports PHOTO_REF AVAILABLE only if an
\* image was attached at WoundPhoto during the current encounter.
PhotoRefIsThisEncounter ==
  AtSummary => (qr_data.PHOTO_REF = "AVAILABLE" => encPhoto)

====
